---------------------------- MODULE Spec2Model ----------------------------
(***************************************************************************)
(* Model of youtube_outlier_tracker.py: one cycle of main() is the steps   *)
(* delete_old_entries, load_channels / get_youtube_client, one iteration   *)
(* of the channel loop, and the summary (sort + send_to_notion).  The      *)
(* Notion database and the YouTube Data API are the environment: their     *)
(* answers (HTTP status, page length) are chosen nondeterministically.     *)
(*                                                                         *)
(* Time is counted in whole hours since an arbitrary epoch that falls on   *)
(* a UTC midnight.  Strings that the code inspects (titles, keywords) are  *)
(* sequences of one-character strings.  Floats are exact rationals         *)
(* [num, den]; a value rounded to two decimals is kept in hundredths.      *)
(***************************************************************************)
EXTENDS Integers, Sequences, FiniteSets, TLC

VARIABLES
    NOTION_API_KEY,      \* TRUE iff the environment variable is set (line 21)
    NOTION_DATABASE_ID,  \* TRUE iff the environment variable is set (line 22)
    YOUTUBE_API_KEY,     \* TRUE iff the environment variable is set (line 20)
    TOPIC_KEYWORDS,      \* the keyword list (line 35)
    channels_file,       \* what channels.json holds (load_channels' result)
    uploads,             \* upstream: channel id -> its uploads, newest first
    now,                 \* the wall clock, in hours
    store,               \* the Notion database: sequence of pages
    pc,                  \* where main() is
    idx,                 \* position of the channel loop in channels_config
    resolved,            \* identifiers handed to get_channel_info, in order
    videos,              \* main's local: details of the channel's sample
    channel_average,     \* main's local: the sample's average, a rational
    outliers,            \* main's local: find_outliers' result
    all_outliers,        \* main's local: the aggregated (then sorted) list
    existing_urls,       \* send_to_notion's local: the known-URL set
    skipped,             \* send_to_notion's local: the skipped count
    created,             \* URLs of the create requests issued, in order
    listing,             \* what the last store listing did
    sweep,               \* what the last delete_old_entries did
    reqs,                \* requests issued in this cycle, by kind
    run                  \* history of the runs: number, all requests ok

vars == <<NOTION_API_KEY, NOTION_DATABASE_ID, YOUTUBE_API_KEY, TOPIC_KEYWORDS,
          channels_file, uploads, now, store, pc, idx, resolved, videos,
          channel_average, outliers, all_outliers, existing_urls, skipped,
          created, listing, sweep, reqs, run>>

-----------------------------------------------------------------------------
(* Program constants *)

OUTLIER_THRESHOLD == [num |-> 3, den |-> 2]      \* 1.5
VIDEOS_FOR_AVERAGE == 20
LOOKBACK_HOURS == 168
DAYS_TO_KEEP == 7
PAGE_SIZE == 100
HOURS_PER_DAY == 24

(* Bounds of the model *)

MaxRuns == 2        \* cycles started in one behaviour
MaxStore == 3       \* a cycle starts only while the store holds at most this many pages
MaxNow == 650       \* the clock stops advancing here

-----------------------------------------------------------------------------
(* Generic helpers *)

Min(a, b) == IF a < b THEN a ELSE b
Max(a, b) == IF a > b THEN a ELSE b

Take(s, n) == SubSeq(s, 1, Min(n, Len(s)))
Drop(s, n) == SubSeq(s, Min(n, Len(s)) + 1, Len(s))

\* A plausible slip: int() in place of round().
FloorDiv(n, d) == n \div d

\* Python's round() of n/d: to the nearest, a tie to the even one.  (With
\* two decimals a tie in the third is settled by the float's binary
\* expansion; no formula below depends on how a tie falls.)
RoundDiv(n, d) ==
    LET q == n \div d
        r == n % d
    IN  IF 2 * r < d THEN q
        ELSE IF 2 * r > d THEN q + 1
        ELSE IF q % 2 = 0 THEN q ELSE q + 1

\* str.lower() on the model's alphabet.
LowerChar(c) ==
    CASE c = "L" -> "l"
      [] c = "A" -> "a"
      [] c = "X" -> "x"
      [] OTHER -> c

Lower(s) == [k \in DOMAIN s |-> LowerChar(s[k])]

\* Python's `sub in s` for strings.
Contains(sub, s) ==
    \E k \in 0..(Len(s) - Len(sub)) : SubSeq(s, k + 1, k + Len(sub)) = sub

\* f"https://www.youtube.com/watch?v={item['id']}"
Url(id) == <<"https://www.youtube.com/watch?v=", id>>

-----------------------------------------------------------------------------
(* calculate_channel_average, matches_topic_filter, find_outliers *)

RECURSIVE SumViews(_)
SumViews(vs) == IF vs = <<>> THEN 0 ELSE Head(vs).views + SumViews(Tail(vs))

\* The average as the rational total_views / len(videos); 0 is 0/1.
CalculateChannelAverage(vs) ==
    IF vs = <<>> THEN [num |-> 0, den |-> 1]
    ELSE [num |-> SumViews(vs), den |-> Len(vs)]

\* A plausible slip: the title is not lowered.
MatchesTopicFilterCaseSensitive(title, keywords) ==
    IF keywords = <<>> THEN TRUE
    ELSE \E k \in DOMAIN keywords : Contains(Lower(keywords[k]), title)

MatchesTopicFilter(title, keywords) ==
    IF keywords = <<>> THEN TRUE
    ELSE \E k \in DOMAIN keywords : Contains(Lower(keywords[k]), Lower(title))

\* views / channel_average when the average is positive, else 0.
OutlierScore(video, avg) ==
    IF avg.num > 0 THEN [num |-> video.views * avg.den, den |-> avg.num]
    ELSE [num |-> 0, den |-> 1]

\* outlier_score >= OUTLIER_THRESHOLD on the unrounded score.
AtLeastThreshold(score) ==
    score.num * OUTLIER_THRESHOLD.den >= OUTLIER_THRESHOLD.num * score.den

\* max((now - published_at) in hours, 1)
HoursSinceUpload(video, t) == Max(t - video.published_at[1], 1)

\* The dict appended at lines 222-229.
Classified(channel_name, video, avg, t) ==
    [id |-> video.id,
     title |-> video.title,
     published_at |-> video.published_at,
     views |-> video.views,
     url |-> video.url,
     channel_name |-> channel_name,
     channel_average |-> RoundDiv(avg.num, avg.den),
     outlier_score |-> RoundDiv(100 * OutlierScore(video, avg).num,
                                OutlierScore(video, avg).den),
     views_per_hour |-> RoundDiv(video.views, HoursSinceUpload(video, t)),
     hours_since_upload |-> 10 * HoursSinceUpload(video, t)]

\* The body of the loop at lines 197-229: is the video appended?
Included(video, avg, lookback_hours, keywords, t) ==
    /\ video.published_at # <<>>
    /\ ~(video.published_at[1] < t - lookback_hours)
    /\ MatchesTopicFilter(video.title, keywords)
    /\ (keywords # <<>> \/ AtLeastThreshold(OutlierScore(video, avg)))

RECURSIVE FindOutliers(_, _, _, _, _, _)
FindOutliers(channel_name, vs, avg, lookback_hours, keywords, t) ==
    IF vs = <<>> THEN <<>>
    ELSE LET rest == FindOutliers(channel_name, Tail(vs), avg, lookback_hours,
                                  keywords, t)
         IN  IF Included(Head(vs), avg, lookback_hours, keywords, t)
             THEN <<Classified(channel_name, Head(vs), avg, t)>> \o rest
             ELSE rest

\* list.sort(key=outlier_score, reverse=True): a stable sort on the field.
RECURSIVE InsertByScore(_, _)
InsertByScore(v, sorted) ==
    IF sorted = <<>> THEN <<v>>
    ELSE IF Head(sorted).outlier_score >= v.outlier_score
         THEN <<Head(sorted)>> \o InsertByScore(v, Tail(sorted))
         ELSE <<v>> \o sorted

RECURSIVE SortByScore(_)
SortByScore(s) ==
    IF s = <<>> THEN <<>>
    ELSE InsertByScore(s[Len(s)], SortByScore(SubSeq(s, 1, Len(s) - 1)))

-----------------------------------------------------------------------------
(* The Notion database.  A page is [url, found, archived]; its id is its   *)
(* position.  A database query returns the pages that are not archived.    *)

Page(url, found) == [url |-> url, found |-> found, archived |-> FALSE]

\* (now - timedelta(days)).strftime("%Y-%m-%d"): the cutoff's UTC midnight.
CutoffDate(t, days_to_keep) ==
    ((t - days_to_keep * HOURS_PER_DAY) \div HOURS_PER_DAY) * HOURS_PER_DAY

\* The filter {"property": "Found Date", "date": {"before": cutoff_date}}.
RECURSIVE OldEntries(_, _, _)
OldEntries(st, cutoff_date, k) ==
    IF k > Len(st) THEN <<>>
    ELSE IF ~st[k].archived /\ st[k].found < cutoff_date
         THEN <<k>> \o OldEntries(st, cutoff_date, k + 1)
         ELSE OldEntries(st, cutoff_date, k + 1)

\* The loop at lines 284-296 from position k on.  An answer is "ok" (200),
\* "fail" (another status) or "exc" (requests raises: the except at line
\* 300 ends the sweep).
RECURSIVE ArchiveEach(_, _, _, _, _)
ArchiveEach(st, results, answers, k, acc) ==
    IF k > Len(results)
    THEN [store |-> st, deleted |-> acc.deleted, requests |-> acc.requests,
          ok |-> acc.ok]
    ELSE IF answers[k] = "exc"
    THEN [store |-> st, deleted |-> acc.deleted,
          requests |-> acc.requests + 1, ok |-> FALSE]
    ELSE IF answers[k] = "ok"
    THEN ArchiveEach([st EXCEPT ![results[k]].archived = TRUE], results,
                     answers, k + 1,
                     [deleted |-> acc.deleted + 1,
                      requests |-> acc.requests + 1, ok |-> acc.ok])
    ELSE ArchiveEach(st, results, answers, k + 1,
                     [deleted |-> acc.deleted,
                      requests |-> acc.requests + 1, ok |-> FALSE])

\* delete_old_entries with both Notion settings present.  query_ok: the
\* query answered 200; served: how many results its single page holds.
DeleteOldEntries(st, t, days_to_keep, query_ok, served, answers) ==
    LET results == Take(OldEntries(st, CutoffDate(t, days_to_keep), 1), served)
    IN  IF ~query_ok
        THEN [store |-> st, deleted |-> 0, requests |-> 0, ok |-> FALSE]
        ELSE ArchiveEach(st, results, answers, 1,
                         [deleted |-> 0, requests |-> 0, ok |-> TRUE])

LivePages(st) == SelectSeq(st, LAMBDA p : ~p.archived)

RECURSIVE PageUrls(_)
PageUrls(rows) ==
    IF rows = <<>> THEN {} ELSE {Head(rows).url} \cup PageUrls(Tail(rows))

\* The while loop of get_existing_video_urls from request number `page` on.
\* served: the length of a full page; fail_at: the request that does not
\* answer 200 or raises (0: none).
RECURSIVE ListPages(_, _, _, _, _)
ListPages(rows, served, fail_at, page, acc) ==
    IF page = fail_at
    THEN [urls |-> acc.urls, read |-> acc.read, requests |-> page,
          failed |-> TRUE]
    ELSE LET urls == acc.urls \cup PageUrls(Take(rows, served))
             read == acc.read + Len(Take(rows, served))
             has_more == Len(rows) > served
         IN  IF has_more
             THEN ListPages(Drop(rows, served), served, fail_at, page + 1,
                            [urls |-> urls, read |-> read])
             ELSE [urls |-> urls, read |-> read, requests |-> page,
                   failed |-> FALSE]

\* A plausible slip: has_more is ignored, only the first page is read.
GetExistingVideoUrlsFirstPage(st, served, fail_at) ==
    ListPages(Take(LivePages(st), served), served, fail_at, 1,
              [urls |-> {}, read |-> 0])

\* A plausible slip: a failed request discards what was read so far.
GetExistingVideoUrlsOrNothing(st, served, fail_at) ==
    LET got == ListPages(LivePages(st), served, fail_at, 1,
                         [urls |-> {}, read |-> 0])
    IN  IF got.failed THEN [got EXCEPT !.urls = {}] ELSE got

GetExistingVideoUrls(st, served, fail_at) ==
    ListPages(LivePages(st), served, fail_at, 1, [urls |-> {}, read |-> 0])

\* A plausible slip: the video id is looked up among the URLs.
NewOutliersById(cands, known) == SelectSeq(cands, LAMBDA v : v.id \notin known)

\* Line 361.
NewOutliers(cands, known) == SelectSeq(cands, LAMBDA v : v.url \notin known)

\* Line 362.
Skipped(cands, new_outliers) == Len(cands) - Len(new_outliers)

\* The loop at lines 379-435: one create request per new outlier; the page
\* exists afterwards iff the request answered 200.
RECURSIVE CreateEach(_, _, _, _, _)
CreateEach(st, new_outliers, answers, k, t) ==
    IF k > Len(new_outliers) THEN st
    ELSE CreateEach(IF answers[k]
                    THEN Append(st, Page(new_outliers[k].url, t))
                    ELSE st,
                    new_outliers, answers, k + 1, t)

UrlsOf(cands) == [k \in DOMAIN cands |-> cands[k].url]

-----------------------------------------------------------------------------
(* The environment: YouTube's channels and the inputs a behaviour starts   *)
(* from.                                                                   *)

\* The dict built at lines 159-168 (likes, comments, thumbnail left out).
Video(id, title, published_at, views) ==
    [id |-> id, title |-> title, published_at |-> published_at,
     views |-> views, url |-> Url(id)]

ChannelIds == {"UC1", "UC2"}

\* channels().list for an identifier: the channel it names, "" for none.
Resolve(identifier) ==
    CASE identifier \in {"UC1", "@one"} -> "UC1"
      [] identifier = "UC2" -> "UC2"
      [] OTHER -> ""

\* channel["snippet"]["title"]
ChannelTitle(ch) == IF ch = "UC1" THEN "One" ELSE "Two"

\* A channels.json entry: {"id": ..., "name": ...} or a bare string.
Named(id) == [form |-> "dict", id |-> id]
Plain(id) == [form |-> "str", id |-> id]

StartTime == 250

ChannelFiles ==
    { <<>>,
      <<Named("UC1")>>,
      <<Named("UC1"), Named("UC2")>>,
      <<Named("UC1"), Named("@one")>>,
      <<Named("UCx"), Named("UC2")>>,
      <<Plain("UC1"), Named("UC2")>> }

KeywordLists == { <<>>, << <<"l", "a">> >> }

BaseUploads ==
    [ch \in ChannelIds |->
        IF ch = "UC1"
        THEN << Video("v1", <<"x", "a">>, <<200>>, 300),
                Video("v2", <<"L", "a">>, <<230>>, 100) >>
        ELSE << Video("v3", <<"x", "l", "A">>, <<100>>, 50) >>]

\* Databases the program can have left behind: URLs unique, every page of
\* an upstream video found no earlier than the video was published.
InitialStores ==
    { <<>>,
      << Page(Url("v0"), 10) >>,
      << Page(Url("v0"), 10), Page(Url("v9"), 20) >>,
      << Page(Url("v0"), 75) >>,
      << Page(Url("v2"), 240) >>,
      << Page(Url("v0"), 10), Page(Url("v3"), 240) >> }

Delays == {1, 200}

NoRequests == [query |-> 0, archive |-> 0, create |-> 0, youtube |-> 0]
NoSweep == [called |-> FALSE, ok |-> FALSE, deleted |-> 0]
NoListing == [called |-> FALSE, failed |-> FALSE, read |-> 0]
ZeroAverage == [num |-> 0, den |-> 1]

Locals ==
    /\ pc = "idle"
    /\ idx = 0
    /\ resolved = <<>>
    /\ videos = <<>>
    /\ channel_average = ZeroAverage
    /\ outliers = <<>>
    /\ all_outliers = <<>>
    /\ existing_urls = {}
    /\ skipped = 0
    /\ created = <<>>
    /\ listing = NoListing
    /\ sweep = NoSweep
    /\ reqs = NoRequests
    /\ run = [no |-> 0, ok |-> TRUE, prev_ok |-> TRUE]

Init ==
    /\ NOTION_API_KEY \in BOOLEAN
    /\ NOTION_DATABASE_ID \in BOOLEAN
    /\ YOUTUBE_API_KEY \in BOOLEAN
    /\ TOPIC_KEYWORDS \in KeywordLists
    /\ channels_file \in ChannelFiles
    /\ uploads = BaseUploads
    /\ now = StartTime
    /\ store \in InitialStores
    /\ Locals

-----------------------------------------------------------------------------
(* main() *)

config == <<NOTION_API_KEY, NOTION_DATABASE_ID, YOUTUBE_API_KEY,
            TOPIC_KEYWORDS, channels_file, uploads>>

Terminal == {"no_channels", "no_credential", "crashed", "done"}

ArchiveAnswers == {"ok", "fail", "exc"}

\* Line 451: main starts with delete_old_entries(days_to_keep=7).
MainStart ==
    /\ pc = "idle"
    /\ run.no < MaxRuns
    /\ Len(store) <= MaxStore
    /\ pc' = "load"
    /\ idx' = 0
    /\ resolved' = <<>>
    /\ videos' = <<>>
    /\ channel_average' = ZeroAverage
    /\ outliers' = <<>>
    /\ all_outliers' = <<>>
    /\ existing_urls' = {}
    /\ skipped' = 0
    /\ created' = <<>>
    /\ listing' = NoListing
    /\ IF ~NOTION_API_KEY \/ ~NOTION_DATABASE_ID
       THEN /\ store' = store
            /\ sweep' = [called |-> TRUE, ok |-> TRUE, deleted |-> 0]
            /\ reqs' = NoRequests
            /\ run' = [no |-> run.no + 1, ok |-> TRUE, prev_ok |-> run.ok]
       ELSE LET old == OldEntries(store, CutoffDate(now, DAYS_TO_KEEP), 1)
            IN  \E query_ok \in BOOLEAN :
                \E served \in 1..Min(PAGE_SIZE, Max(1, Len(old))) :
                \E answers \in [1..Min(served, Len(old)) -> ArchiveAnswers] :
                   LET r == DeleteOldEntries(store, now, DAYS_TO_KEEP,
                                             query_ok, served, answers)
                   IN  /\ store' = r.store
                       /\ sweep' = [called |-> TRUE, ok |-> r.ok,
                                    deleted |-> r.deleted]
                       /\ reqs' = [NoRequests EXCEPT !.query = 1,
                                                     !.archive = r.requests]
                       /\ run' = [no |-> run.no + 1, ok |-> r.ok,
                                  prev_ok |-> run.ok]
    /\ UNCHANGED <<config, now>>

\* Lines 454-473: load_channels, then get_youtube_client.
MainLoad ==
    /\ pc = "load"
    /\ IF channels_file = <<>>
       THEN pc' = "no_channels" /\ idx' = idx
       ELSE IF ~YOUTUBE_API_KEY
       THEN pc' = "no_credential" /\ idx' = idx
       ELSE pc' = "channels" /\ idx' = 1
    /\ UNCHANGED <<config, now, store, resolved, videos, channel_average,
                   outliers,
                   all_outliers, existing_urls, skipped, created, listing,
                   sweep, reqs, run>>

\* What the YouTube API does for one channel: every request answers, or
\* one of them raises HttpError.
ChannelOutcomes == {"ok", "channel_error", "playlist_error", "details_error"}

\* Requests to YouTube one iteration issues.
YoutubeRequests(ch, outcome) ==
    IF outcome = "channel_error" \/ ch = "" THEN 1
    ELSE IF outcome = "playlist_error" \/ uploads[ch] = <<>> THEN 2
    ELSE 3

\* Lines 478-515: one iteration of the channel loop.
MainChannel ==
    /\ pc = "channels"
    /\ idx <= Len(channels_file)
    /\ IF channels_file[idx].form = "str"
       THEN \* channel_entry.get on a str raises AttributeError (line 479)
            /\ pc' = "crashed"
            /\ UNCHANGED <<idx, resolved, videos, channel_average, outliers,
                           all_outliers, reqs, run>>
       ELSE \E outcome \in ChannelOutcomes :
            LET ch == Resolve(channels_file[idx].id)
                skip == \/ outcome \in {"channel_error", "playlist_error"}
                        \/ ch = ""
                        \/ uploads[ch] = <<>>
                vs == IF outcome = "details_error" THEN <<>>
                      ELSE Take(uploads[ch], VIDEOS_FOR_AVERAGE)
                avg == CalculateChannelAverage(vs)
                found == FindOutliers(ChannelTitle(ch), vs, avg,
                                      LOOKBACK_HOURS, TOPIC_KEYWORDS, now)
            IN  /\ pc' = "channels"
                /\ idx' = idx + 1
                /\ resolved' = Append(resolved, channels_file[idx].id)
                /\ reqs' = [reqs EXCEPT !.youtube =
                                @ + YoutubeRequests(ch, outcome)]
                /\ run' = [run EXCEPT !.ok = @ /\ outcome = "ok"]
                /\ IF skip
                   THEN UNCHANGED <<videos, channel_average, outliers,
                                    all_outliers>>
                   ELSE /\ videos' = vs
                        /\ channel_average' = avg
                        /\ outliers' = found
                        /\ all_outliers' = all_outliers \o found
    /\ UNCHANGED <<config, now, store, existing_urls, skipped, created,
                   listing, sweep>>

\* send_to_notion(all_outliers) with both Notion settings present.
SendToNotion(cands) ==
    LET live == LivePages(store)
    IN  \E served \in 1..Min(PAGE_SIZE, Max(1, Len(live))) :
        \E fail_at \in 0..((Len(live) + served - 1) \div served) :
           LET got == GetExistingVideoUrls(store, served, fail_at)
               new_outliers == NewOutliers(cands, got.urls)
           IN  \E answers \in [1..Len(new_outliers) -> BOOLEAN] :
                  /\ existing_urls' = got.urls
                  /\ listing' = [called |-> TRUE, failed |-> got.failed,
                                 read |-> got.read]
                  /\ skipped' = Skipped(cands, new_outliers)
                  /\ created' = UrlsOf(new_outliers)
                  /\ store' = CreateEach(store, new_outliers, answers, 1, now)
                  /\ reqs' = [reqs EXCEPT !.query = @ + got.requests,
                                          !.create = @ + Len(new_outliers)]
                  /\ run' = [run EXCEPT !.ok =
                                @ /\ ~got.failed
                                  /\ \A k \in DOMAIN answers : answers[k]]

\* Lines 522-546: the summary: sort, then send_to_notion.
MainSummary ==
    /\ pc = "channels"
    /\ idx > Len(channels_file)
    /\ pc' = "done"
    /\ all_outliers' = SortByScore(all_outliers)
    /\ IF all_outliers = <<>> \/ ~NOTION_API_KEY \/ ~NOTION_DATABASE_ID
       THEN UNCHANGED <<store, existing_urls, skipped, created, listing,
                        reqs, run>>
       ELSE SendToNotion(SortByScore(all_outliers))
    /\ UNCHANGED <<config, now, idx, resolved, videos, channel_average,
                   outliers, sweep>>

\* main has returned (or died); the scheduler starts it again later.
MainExit ==
    /\ pc \in Terminal
    /\ pc' = "idle"
    /\ \E d \in Delays : now + d <= MaxNow /\ now' = now + d
    /\ UNCHANGED <<config, store, idx, resolved, videos, channel_average,
                   outliers,
                   all_outliers, existing_urls, skipped, created, listing,
                   sweep, reqs, run>>

Next == MainStart \/ MainLoad \/ MainChannel \/ MainSummary \/ MainExit

Spec == Init /\ [][Next]_vars

-----------------------------------------------------------------------------
(* The classifier on inputs drawn from bounded sets: the same cycle, with  *)
(* the first channel's sample chosen freely and no Notion settings.        *)

ViewValues == {0, 1, 200, 201, 600}
Titles == { <<"L", "a">>, <<"x">> }
PublishTimes == { <<>>, <<60>>, <<240>> }
ClassifyKeywordLists == { <<>>, << <<"l", "a">> >>, << <<"q">>, <<"L", "A">> >> }

Samples ==
    { << Video("v1", t1, p1, n1), Video("v2", t2, p2, n2) >> :
        t1 \in Titles, t2 \in Titles, p1 \in PublishTimes, p2 \in PublishTimes,
        n1 \in ViewValues, n2 \in ViewValues }

InitClassify ==
    /\ NOTION_API_KEY = FALSE
    /\ NOTION_DATABASE_ID = FALSE
    /\ YOUTUBE_API_KEY = TRUE
    /\ TOPIC_KEYWORDS \in ClassifyKeywordLists
    /\ channels_file = <<Named("UC1"), Named("UC2")>>
    /\ \E sample \in Samples :
          uploads = [BaseUploads EXCEPT !["UC1"] = sample]
    /\ now = StartTime
    /\ store = <<>>
    /\ Locals

SpecClassify == InitClassify /\ [][Next]_vars

-----------------------------------------------------------------------------
(* Properties *)

NotionConfigured == NOTION_API_KEY /\ NOTION_DATABASE_ID

\* C1: after any sequence of cycles from a store with unique URLs, no two
\* pages that are not archived hold the same URL.
C1_LiveUrlsUnique ==
    \A a \in DOMAIN store : \A b \in DOMAIN store :
        (a # b /\ ~store[a].archived /\ ~store[b].archived)
            => store[a].url # store[b].url

KeptPositions ==
    {k \in DOMAIN all_outliers : all_outliers[k].url \notin existing_urls}

\* C3: send_to_notion issues a create for exactly the candidates whose URL
\* is not in the known set, in their order, for none whose URL is known,
\* and the skipped count is the number of candidates removed.
C3_CreatesAreTheUnknownCandidates ==
    (pc = "done" /\ listing.called) =>
        /\ Len(created) = Cardinality(KeptPositions)
        /\ \A k \in KeptPositions :
              created[Cardinality({j \in KeptPositions : j <= k})]
                  = all_outliers[k].url
        /\ \A j \in DOMAIN created : created[j] \notin existing_urls
        /\ skipped = Cardinality(DOMAIN all_outliers \ KeptPositions)

\* send_to_notion both skipped a known candidate and created a new one.
C3_Witness ==
    /\ pc = "done" /\ listing.called
    /\ skipped > 0 /\ created # <<>> /\ existing_urls # {}

\* C4: after delete_old_entries with every store request answered 200, the
\* archived pages are exactly those found earlier than now - days_to_keep.
C4_ArchivedExactlyTheOld ==
    (pc = "load" /\ NotionConfigured /\ sweep.ok) =>
        \A k \in DOMAIN store :
            store[k].archived
                <=> store[k].found < now - DAYS_TO_KEEP * HOURS_PER_DAY

\* C5: with no channels configured the cycle ends without any request to
\* the store or to YouTube (so nothing is archived or created).
C5_NoChannelsNoRequests ==
    pc = "no_channels" => reqs = NoRequests

\* C6: with the YouTube credential absent the cycle ends before any
\* request to the store (query, archive, create) or to YouTube.
C6_NoCredentialNoRequests ==
    pc = "no_credential" =>
        /\ reqs.query = 0 /\ reqs.archive = 0 /\ reqs.create = 0
        /\ reqs.youtube = 0

\* URLs of the pages the listing had read when it stopped.
UrlsRead == PageUrls(Take(LivePages(store), listing.read))

WriteStepReached ==
    /\ Len(created) + skipped = Len(all_outliers)
    /\ reqs.create = Len(created)
    /\ \A k \in DOMAIN all_outliers :
          all_outliers[k].url \notin existing_urls
              => \E j \in DOMAIN created : created[j] = all_outliers[k].url

\* C7 as stated: a listing that fails on any page yields the empty known
\* set, and the cycle goes on to the write step.
C7_FailedListingYieldsEmptySet ==
    (pc = "done" /\ listing.failed) =>
        existing_urls = {} /\ WriteStepReached

\* C7 amended: a listing that fails on some page yields the URLs of the
\* pages read before that request (none when the first request fails), and
\* the cycle goes on to the write step.
C7_FailedListingYieldsPagesRead ==
    (pc = "done" /\ listing.failed) =>
        existing_urls = UrlsRead /\ WriteStepReached

\* A listing that failed after a page had been read, followed by a create.
C7_Witness ==
    /\ pc = "done" /\ listing.failed /\ listing.read > 0
    /\ existing_urls # {} /\ created # <<>>

InWindow(v) ==
    v.published_at # <<>> /\ v.published_at[1] >= now - LOOKBACK_HOURS

TitleHasKeyword(title, kw) ==
    \E off \in 0..(Len(title) - Len(kw)) :
        \A j \in 1..Len(kw) : LowerChar(title[off + j]) = LowerChar(kw[j])

Reported(v) == \E k \in DOMAIN outliers : outliers[k].id = v.id

\* views / average >= 1.5, and false when the average is 0
ScoreReachesThreshold(v) ==
    /\ channel_average.num > 0
    /\ 2 * v.views * channel_average.den >= 3 * channel_average.num

Classifying == pc \in {"channels", "done"} /\ videos # <<>>

\* C8: a video inside the lookback window is included, with keywords set,
\* iff its title contains a keyword case-insensitively (whatever its
\* score), and without keywords iff its score is at least the threshold.
C8_InclusionRule ==
    Classifying =>
        \A k \in DOMAIN videos :
            InWindow(videos[k]) =>
                (Reported(videos[k]) <=>
                    IF TOPIC_KEYWORDS # <<>>
                    THEN \E n \in DOMAIN TOPIC_KEYWORDS :
                            TitleHasKeyword(videos[k].title, TOPIC_KEYWORDS[n])
                    ELSE ScoreReachesThreshold(videos[k]))

\* Topic mode: of two videos in the window one matches in another case and
\* is included below the threshold, the other does not match and is left out.
C8_Witness ==
    /\ Classifying /\ TOPIC_KEYWORDS # <<>>
    /\ \E k \in DOMAIN outliers :
          /\ outliers[k].outlier_score < 150
          /\ \A n \in DOMAIN TOPIC_KEYWORDS :
                ~Contains(TOPIC_KEYWORDS[n], outliers[k].title)
    /\ \E k \in DOMAIN videos : InWindow(videos[k]) /\ ~Reported(videos[k])

ChannelOfTitle(name) == IF name = "One" THEN "UC1" ELSE "UC2"

\* views / average before rounding, from the upstream data.
ExactScore(o) ==
    LET sample == Take(uploads[ChannelOfTitle(o.channel_name)],
                       VIDEOS_FOR_AVERAGE)
    IN  IF SumViews(sample) > 0
        THEN [num |-> o.views * Len(sample), den |-> SumViews(sample)]
        ELSE [num |-> 0, den |-> 1]

Greater(x, y) == x.num * y.den > y.num * x.den

\* Position of a classified video in the order main met it.
Encounter(o) ==
    LET ch == ChannelOfTitle(o.channel_name)
        c == CHOOSE n \in DOMAIN channels_file :
                 /\ Resolve(channels_file[n].id) = ch
                 /\ \A m \in 1..(n - 1) : Resolve(channels_file[m].id) # ch
        v == CHOOSE n \in DOMAIN uploads[ch] : uploads[ch][n].id = o.id
    IN  c * (VIDEOS_FOR_AVERAGE + 1) + v

\* C9: the list main sorts is in descending order of the exact score
\* views / average, videos of equal exact score in encounter order.
C9_SortedByExactScore ==
    pc = "done" =>
        \A a \in DOMAIN all_outliers : \A b \in DOMAIN all_outliers :
            a < b =>
                /\ ~Greater(ExactScore(all_outliers[b]),
                            ExactScore(all_outliers[a]))
                /\ ~Greater(ExactScore(all_outliers[a]),
                            ExactScore(all_outliers[b]))
                       => Encounter(all_outliers[a]) < Encounter(all_outliers[b])

\* C10 as stated: the outlier_score a record carries is non-negative and
\* is 0 only when the channel average is 0 or the view count is 0.
C10_ScoreZeroOnlyWithoutViewsOrAverage ==
    Classifying =>
        \A k \in DOMAIN outliers :
            /\ outliers[k].outlier_score >= 0
            /\ outliers[k].outlier_score = 0
                  => (channel_average.num = 0 \/ outliers[k].views = 0)

\* C10 amended: the outlier_score a record carries is non-negative and is
\* 0 only when the channel average is 0, the view count is 0, or the exact
\* score views / average is at most 0.005 (it rounds to 0.00).
C10_ScoreZeroOnlyWhenItRoundsToZero ==
    Classifying =>
        \A k \in DOMAIN outliers :
            /\ outliers[k].outlier_score >= 0
            /\ outliers[k].outlier_score = 0
                  => \/ channel_average.num = 0
                     \/ outliers[k].views = 0
                     \/ 200 * outliers[k].views * channel_average.den
                            <= channel_average.num

\* A record with views and a positive average that carries the score 0.
C10_Witness ==
    /\ Classifying
    /\ \E k \in DOMAIN outliers :
          /\ outliers[k].outlier_score = 0
          /\ outliers[k].views > 0
          /\ channel_average.num > 0


\* C11: whatever the form of the entries (bare identifier or {id, name}),
\* a cycle that enters the channel loop hands every entry's identifier to
\* channel resolution in configuration order and reaches the write step:
\* it never ends inside the loop.
C11_EveryEntryResolvedInOrder ==
    /\ pc # "crashed"
    /\ pc = "channels" =>
          resolved = [k \in 1..(idx - 1) |-> channels_file[k].id]
    /\ pc = "done" =>
          resolved = [k \in DOMAIN channels_file |-> channels_file[k].id]

=============================================================================
